---- MODULE Spec2Model ----
(***************************************************************************)
(* isce2he5.py: assembling an HDF-EOS5 interferogram product from ISCE     *)
(* rasters.  main() is a straight-line script; it is modelled as a program *)
(* counter walking the list of its statements (Prog), one action per kind  *)
(* of statement.  Every call into the raster library (IML) or the          *)
(* container library (h5py) may raise; a raise leaves main() at once and   *)
(* nothing after it runs.                                                  *)
(*                                                                         *)
(* Coordinates and spacings are fixed-point numbers, in tenths of a        *)
(* degree; angles are whole degrees.  Python's 0-based indices are kept    *)
(* through At(s, i).                                                       *)
(***************************************************************************)
EXTENDS Integers, Sequences, FiniteSets, TLC

VARIABLES
    rdrcoord,       \* inps.rdrcoord (--radar)
    geocoord,       \* inps.geocoord (--geo)
    disk,           \* names of the raster files that exist and can be mapped
    georeferenced,  \* whether the unwrapped raster carries georeferencing metadata
    pc,             \* index in Prog of the statement to run next
    status,         \* "running", "failed" (an exception left main) or "done"
    err,            \* the exception that left main, "none" otherwise
    fname,          \* int_file, cor_file, unw_file, rdr_file
    ras,            \* the locals unw, cor, wrap, ang
    read,           \* what mmapFromISCE returned for each local (kept for reference)
    shape,          \* the local shape
    fstate,         \* the container f: "none", "open", "closed"
    grp,            \* the locals hdfeos, group, insar, data, once bound: group paths
    groups,         \* groups of the container, in creation order, with their attrs
    datasets,       \* datasets of the container, in creation order
    dset,           \* the local dset: index in datasets of the dataset it names
    geoinfo,        \* the local geoinfo
    ext,            \* the locals north, south, west, east
    log             \* the calls made on IML and h5py so far, in order

vars == <<rdrcoord, geocoord, disk, georeferenced, pc, status, err, fname, ras, read,
          shape, fstate, grp, groups, datasets, dset, geoinfo, ext, log>>

-----------------------------------------------------------------------------
(* Bounds of the model. *)

MaxDim == 2          \* raster widths and heights range over 1..MaxDim
MaxSpacing == 1      \* grid spacings range over -MaxSpacing..MaxSpacing
NPix == 2            \* number of pixels kept of each band

(* Values of the model. *)

Unbound == [k |-> "unbound"]    \* a local not yet assigned (record-valued locals)
None == [k |-> "None"]          \* Python's None (record-valued locals)
UnboundT == << >>               \* a tuple-valued local not yet assigned
NoneT == << "None" >>           \* Python's None in a tuple-valued local
NoAttrs == [n \in {} |-> 0]     \* an empty attribute map

Origins == {<<0, 100>>, <<100, 200>>}       \* (north, west) of the first pixel
Spacings == (0 - MaxSpacing) .. MaxSpacing
AzimuthBands == [1 .. NPix -> {0, 360}] \cup {[i \in 1 .. NPix |-> 90 * i]}

ExampleGeoInfo == <<100, 200, -1, 1>>
ExampleShape == <<101, 51>>

GeoInfos ==
    { <<o[1], o[2], dy, dx>> : o \in Origins, dy \in Spacings, dx \in Spacings }
    \cup {ExampleGeoInfo}
Shapes == ((1 .. MaxDim) \X (1 .. MaxDim)) \cup {ExampleShape}

At(s, i) == s[i + 1]                    \* s[i] of Python, i >= 0
FromEnd(s, i) == s[Len(s) + 1 - i]      \* s[-i] of Python, i >= 1
PyStr(v) == ToString(v)                 \* str(v)

fzero == [dtype |-> "float32", re |-> 0, im |-> 0]
czero == [dtype |-> "complex64", re |-> 0, im |-> 0]

Int32Array(seq) == [dtype |-> "int32", data |-> seq]

Const(v) == [i \in 1 .. NPix |-> v]
Raster(bands, shp) == [k |-> "raster", bands |-> bands, shape |-> shp]

(* The rasters a file may hold.  filt_topophase.unw has an amplitude and a *)
(* phase band, los.rdr an incidence and an azimuth band; a malformed file  *)
(* may lack its second band.  The shape is that of the unwrapped raster;   *)
(* the other rasters are taken to lie on the same grid.                    *)
RastersOf(var) ==
    CASE var = "unw" ->
            { Raster(b, s) : b \in {<<Const(7)>>, <<Const(7), [i \in 1 .. NPix |-> i]>>},
                             s \in Shapes }
      [] var = "cor" -> { Raster(<<Const(1)>>, shape) }
      [] var = "wrap" -> { Raster(<<Const(<<3, -4>>)>>, shape) }
      [] var = "ang" ->
            { Raster(<<[i \in 1 .. NPix |-> 30 + i]>>, shape) }
            \cup { Raster(<<[i \in 1 .. NPix |-> 30 + i], a>>, shape) :
                        a \in AzimuthBands }

-----------------------------------------------------------------------------
(* Pure parts of the script. *)

(* The radar test taken for "radar only": --radar with --geo passes. *)
ModeCheckRadarOnly(rdr, geo) ==
    IF (rdr = FALSE) /\ (geo = FALSE) THEN "ModeSelection"
    ELSE IF rdr /\ ~geo THEN "Unimplemented"
    ELSE "ok"

ModeCheck(rdr, geo) ==
    IF (rdr = FALSE) /\ (geo = FALSE) THEN "ModeSelection"
    ELSE IF rdr THEN "Unimplemented"
    ELSE "ok"

DefaultNames ==
    [int_file |-> "filt_topophase.flat", cor_file |-> "phsig.cor",
     unw_file |-> "filt_topophase.unw", rdr_file |-> "los.rdr"]

ResolveNames(geo) ==
    IF geo THEN [n \in DOMAIN DefaultNames |-> DefaultNames[n] \o ".geo"]
    ELSE DefaultNames

(* The two branches exchanged. *)
ProductTypeGroupSwapped(geo) == IF geo THEN "SWATHS" ELSE "GRIDS"

ProductTypeGroup(geo) == IF geo THEN "GRIDS" ELSE "SWATHS"

(* The result wrapped into [0, 360). *)
AzimuthTransformWrapped(band) == [i \in DOMAIN band |-> (360 - band[i]) % 360]

AzimuthTransform(band) == [i \in DOMAIN band |-> 360 - band[i]]

(* The two axes of shape exchanged. *)
computeExtentSwapped(gi, shp) ==
    [north |-> At(gi, 0),
     south |-> At(gi, 0) + (At(shp, 0) - 1) * At(gi, 2),
     west  |-> At(gi, 1),
     east  |-> At(gi, 1) + (At(shp, 1) - 1) * At(gi, 3)]

computeExtent(gi, shp) ==
    [north |-> At(gi, 0),
     south |-> At(gi, 0) + (At(shp, 1) - 1) * At(gi, 2),
     west  |-> At(gi, 1),
     east  |-> At(gi, 1) + (At(shp, 0) - 1) * At(gi, 3)]

GridAttrValue(name) ==
    CASE name = "GCTPProjectionCode" -> Int32Array(<<0>>)
      [] name = "GCTPSpheroidCode" -> PyStr(12)
      [] name = "Projection" -> "Geographic"
      [] name = "GridOrigin" -> "Center"
      [] name = "GridSpacing" -> PyStr(<<FromEnd(geoinfo, 1), FromEnd(geoinfo, 2)>>)
      [] name = "GridSpacingUnit" -> "deg"
      [] name = "GridSpan" -> PyStr(<<ext.west, ext.east, ext.north, ext.south>>)
      [] name = "GridSpanUnit" -> "deg"
      [] name = "NumberOfLongitudesInGrid" -> Int32Array(<<At(shape, 0)>>)
      [] name = "NumberOfLatitudesInGrid" -> Int32Array(<<At(shape, 1)>>)

-----------------------------------------------------------------------------
(* The statements of main(), in program order. *)

Mmap(var, file) == [op |-> "mmap", var |-> var, file |-> file]
Release(var) == [op |-> "release", var |-> var]
Group(into, parent, name) ==
    [op |-> "create_group", into |-> into, parent |-> parent, name |-> name]
Attrs(kvs) == [i \in 1 .. Len(kvs) |-> [op |-> "attr", key |-> kvs[i][1], value |-> kvs[i][2]]]
Dataset(name, var, band, transform, chunks, kvs) ==
    << [op |-> "create_dataset", name |-> name, var |-> var, band |-> band,
        transform |-> transform, chunks |-> chunks, compression |-> "gzip"] >>
    \o Attrs(kvs)
GridAttrs(names) == [i \in 1 .. Len(names) |-> [op |-> "insar_attr", key |-> names[i]]]

(* The container opened first, before the unwrapped raster is mapped. *)
PrologueFileFirst ==
    << [op |-> "cmdLineParse"],
       [op |-> "names"],
       [op |-> "File"],
       Mmap("unw", "unw_file"),
       [op |-> "shape", var |-> "unw", band |-> 0],
       Group("hdfeos", "f", "HDFEOS"),
       Group("group", "hdfeos", "<product type>"),
       Group("insar", "group", "InSAR"),
       Group("data", "group", "Data Fields") >>

Prologue ==
    << [op |-> "cmdLineParse"],
       [op |-> "names"],
       Mmap("unw", "unw_file"),
       [op |-> "shape", var |-> "unw", band |-> 0],
       [op |-> "File"],
       Group("hdfeos", "f", "HDFEOS"),
       Group("group", "hdfeos", "<product type>"),
       Group("insar", "group", "InSAR"),
       Group("data", "group", "Data Fields") >>

UnwBlock ==
    Dataset("UnwrappedInterferogram", "unw", 1, "none", <<128, 128>>,
            << <<"Title", "Unwrapped phase">>, <<"MissingValue", fzero>>,
               <<"Units", "radians">>, <<"_FillValue", fzero>> >>)
    \o << Release("unw") >>

CorBlock ==
    << Mmap("cor", "cor_file") >>
    \o Dataset("Coherence", "cor", 0, "none", <<128, 128>>,
               << <<"Title", "Phase Sigma Coherence">>, <<"MissingValue", fzero>>,
                  <<"Units", "None">>, <<"_FillValue", fzero>> >>)
    \o << Release("cor") >>

(* The wrapped interferogram given the real zero as missing and fill value. *)
WrapBlockRealZero ==
    << Mmap("wrap", "int_file") >>
    \o Dataset("WrappedInterferogram", "wrap", 0, "none", <<64, 64>>,
               << <<"Title", "Wrapped interferogram">>, <<"MissingValue", fzero>>,
                  <<"Units", "None">>, <<"_FillValue", fzero>> >>)
    \o << Release("wrap") >>

WrapBlock ==
    << Mmap("wrap", "int_file") >>
    \o Dataset("WrappedInterferogram", "wrap", 0, "none", <<64, 64>>,
               << <<"Title", "Wrapped interferogram">>, <<"MissingValue", czero>>,
                  <<"Units", "None">>, <<"_FillValue", czero>> >>)
    \o << Release("wrap") >>

AngBlock ==
    << Mmap("ang", "rdr_file") >>
    \o Dataset("Illimunation", "ang", 0, "none", <<128, 128>>,
               << <<"Title", "Illumination angle">>,
                  <<"Description", "Vertical angle of the vector from target to sensor, w.r.t to the normal of the ellipse at the target">>,
                  <<"MissingValue", fzero>>, <<"Units", "degrees">>,
                  <<"_FillValue", fzero>> >>)
    \o Dataset("Azimuth", "ang", 1, "360-", <<128, 128>>,
               << <<"Title", "Azimuth angle">>,
                  <<"Description", "Angle of the vector from target to sensor, measured clockwise w.r.t North at the target">>,
                  <<"MissingValue", fzero>>, <<"Units", "degrees">>,
                  <<"_FillValue", fzero>> >>)
    \o << Release("ang") >>

GridAttrNames ==
    << "GCTPProjectionCode", "GCTPSpheroidCode", "Projection", "GridOrigin",
       "GridSpacing", "GridSpacingUnit", "GridSpan", "GridSpanUnit",
       "NumberOfLongitudesInGrid", "NumberOfLatitudesInGrid" >>

GeoBlock ==
    << [op |-> "getGeoInfo"], [op |-> "extent"] >> \o GridAttrs(GridAttrNames)

(* The georeferencing metadata read and checked before any dataset is written. *)
ProgGeoFirst ==
    Prologue \o << [op |-> "getGeoInfo"] >>
    \o UnwBlock \o CorBlock \o WrapBlock \o AngBlock
    \o << [op |-> "extent"] >> \o GridAttrs(GridAttrNames) \o << [op |-> "close"] >>

(* The coherence written before the unwrapped interferogram. *)
ProgCorFirst ==
    Prologue \o CorBlock \o UnwBlock \o WrapBlock \o AngBlock \o GeoBlock
    \o << [op |-> "close"] >>

Prog == Prologue \o UnwBlock \o CorBlock \o WrapBlock \o AngBlock \o GeoBlock
        \o << [op |-> "close"] >>

Ins == Prog[pc]
Op(o) == status = "running" /\ pc \in DOMAIN Prog /\ Ins.op = o
ClosePc == CHOOSE i \in DOMAIN Prog : Prog[i].op = "close"

-----------------------------------------------------------------------------
Init ==
    /\ rdrcoord \in BOOLEAN
    /\ geocoord \in BOOLEAN
    /\ disk \in SUBSET { ResolveNames(TRUE)[n] : n \in DOMAIN DefaultNames }
    /\ georeferenced \in BOOLEAN
    /\ pc = 1
    /\ status = "running"
    /\ err = "none"
    /\ fname = Unbound
    /\ ras = [v \in {"unw", "cor", "wrap", "ang"} |-> Unbound]
    /\ read = [v \in {"unw", "cor", "wrap", "ang"} |-> Unbound]
    /\ shape = UnboundT
    /\ fstate = "none"
    /\ grp = [v \in {} |-> ""]
    /\ groups = << >>
    /\ datasets = << >>
    /\ dset = 0
    /\ geoinfo = UnboundT
    /\ ext = Unbound
    /\ log = << >>

Raise(e) == status' = "failed" /\ err' = e /\ pc' = pc
Step == status' = status /\ err' = err /\ pc' = pc + 1

env == <<rdrcoord, geocoord, disk, georeferenced>>
container == <<fstate, groups, datasets>>

-----------------------------------------------------------------------------
(* inps = cmdLineParse(): argument validation. *)
cmdLineParse ==
    /\ Op("cmdLineParse")
    /\ IF ModeCheck(rdrcoord, geocoord) = "ok" THEN Step
       ELSE Raise(ModeCheck(rdrcoord, geocoord))
    /\ UNCHANGED <<env, fname, ras, read, shape, container, grp, dset, geoinfo, ext, log>>

(* The default names, with ".geo" appended in geo mode. *)
FilenameResolve ==
    /\ Op("names")
    /\ fname' = ResolveNames(geocoord)
    /\ Step
    /\ UNCHANGED <<env, ras, read, shape, container, grp, dset, geoinfo, ext, log>>

(* var = IML.mmapFromISCE(file, logging), the file being there. *)
mmapFromISCE ==
    /\ Op("mmap")
    /\ fname[Ins.file] \in disk
    /\ \E r \in RastersOf(Ins.var) :
          /\ ras' = [ras EXCEPT ![Ins.var] = r]
          /\ read' = [read EXCEPT ![Ins.var] = r]
    /\ log' = Append(log, <<"mmap", fname[Ins.file]>>)
    /\ Step
    /\ UNCHANGED <<env, fname, shape, container, grp, dset, geoinfo, ext>>

(* IML.mmapFromISCE raises: the file is missing or cannot be mapped. *)
mmapFails ==
    /\ Op("mmap")
    /\ fname[Ins.file] \notin disk
    /\ Raise("RasterOpen")
    /\ UNCHANGED <<env, fname, ras, read, shape, container, grp, dset, geoinfo, ext, log>>

(* shape = unw.bands[0].shape *)
RecordShape ==
    /\ Op("shape")
    /\ shape' = ras[Ins.var].shape
    /\ Step
    /\ UNCHANGED <<env, fname, ras, read, container, grp, dset, geoinfo, ext, log>>

(* f = h5py.File(h5file) *)
OpenFile ==
    /\ Op("File")
    /\ fstate' = "open"
    /\ log' = Append(log, <<"File">>)
    /\ Step
    /\ UNCHANGED <<env, fname, ras, read, shape, groups, datasets, grp, dset, geoinfo, ext>>

(* h5py.File raises: the output path cannot be created or opened. *)
OpenFileFails ==
    /\ Op("File")
    /\ Raise("ContainerCreate")
    /\ UNCHANGED <<env, fname, ras, read, shape, container, grp, dset, geoinfo, ext, log>>

GroupName(ins) ==
    IF ins.name = "<product type>" THEN ProductTypeGroup(geocoord) ELSE ins.name
ParentPath(ins) == IF ins.parent = "f" THEN "" ELSE grp[ins.parent]
HasGroup(path) == \E i \in DOMAIN groups : groups[i].path = path
HasDataset(name) == \E i \in DOMAIN datasets : datasets[i].name = name

(* into = parent.create_group(name) *)
CreateGroup ==
    /\ Op("create_group")
    /\ LET path == ParentPath(Ins) \o "/" \o GroupName(Ins) IN
          /\ ~HasGroup(path)
          /\ groups' = Append(groups, [path |-> path, attrs |-> NoAttrs])
          /\ grp' = (Ins.into :> path) @@ grp
          /\ log' = Append(log, <<"create_group", path>>)
    /\ Step
    /\ UNCHANGED <<env, fname, ras, read, shape, fstate, datasets, dset, geoinfo, ext>>

DatasetData(ins) ==
    IF ins.transform = "360-" THEN AzimuthTransform(At(ras[ins.var].bands, ins.band))
    ELSE At(ras[ins.var].bands, ins.band)

(* dset = data.create_dataset(name, data=..., shape=shape, chunks=...,     *)
(* compression='gzip')                                                     *)
CreateDataset ==
    /\ Op("create_dataset")
    /\ Ins.band < Len(ras[Ins.var].bands)
    /\ ~HasDataset(Ins.name)
    /\ datasets' = Append(datasets,
            [name |-> Ins.name, parent |-> grp.data, data |-> DatasetData(Ins),
             shape |-> shape, chunks |-> Ins.chunks, compression |-> Ins.compression,
             attrs |-> NoAttrs])
    /\ dset' = Len(datasets) + 1
    /\ log' = Append(log, <<"create_dataset", Ins.name>>)
    /\ Step
    /\ UNCHANGED <<env, fname, ras, read, shape, fstate, groups, grp, geoinfo, ext>>

(* var.bands[i] raises: the raster has no band i. *)
BandIndexFails ==
    /\ Op("create_dataset")
    /\ ~(Ins.band < Len(ras[Ins.var].bands))
    /\ Raise("BandIndex")
    /\ UNCHANGED <<env, fname, ras, read, shape, container, grp, dset, geoinfo, ext, log>>

(* dset.attrs[key] = value *)
SetAttr ==
    /\ Op("attr")
    /\ datasets' = [datasets EXCEPT ![dset].attrs = (Ins.key :> Ins.value) @@ @]
    /\ log' = Append(log, <<"attr", datasets[dset].name, Ins.key>>)
    /\ Step
    /\ UNCHANGED <<env, fname, ras, read, shape, fstate, groups, grp, dset, geoinfo, ext>>

(* var = None *)
ReleaseRaster ==
    /\ Op("release")
    /\ ras' = [ras EXCEPT ![Ins.var] = None]
    /\ Step
    /\ UNCHANGED <<env, fname, read, shape, container, grp, dset, geoinfo, ext, log>>

(* if inps.geocoord: geoinfo = IML.getGeoInfo(unw_file); raise if None *)
GetGeoInfo ==
    /\ Op("getGeoInfo")
    /\ IF ~geocoord
       THEN /\ pc' = ClosePc /\ status' = status /\ err' = err
            /\ UNCHANGED <<geoinfo, log>>
       ELSE /\ log' = Append(log, <<"getGeoInfo", fname.unw_file>>)
            /\ IF georeferenced
               THEN (\E g \in GeoInfos : geoinfo' = g) /\ Step
               ELSE geoinfo' = NoneT /\ Raise("MissingGeoreference")
    /\ UNCHANGED <<env, fname, ras, read, shape, container, grp, dset, ext>>

(* north, south, west, east *)
ComputeExtent ==
    /\ Op("extent")
    /\ ext' = computeExtent(geoinfo, shape)
    /\ Step
    /\ UNCHANGED <<env, fname, ras, read, shape, container, grp, dset, geoinfo, log>>

GroupIndex(path) == CHOOSE i \in DOMAIN groups : groups[i].path = path

(* insar.attrs[key] = value *)
SetGridAttr ==
    /\ Op("insar_attr")
    /\ groups' = [groups EXCEPT ![GroupIndex(grp.insar)].attrs =
                        (Ins.key :> GridAttrValue(Ins.key)) @@ @]
    /\ log' = Append(log, <<"attr", "InSAR", Ins.key>>)
    /\ Step
    /\ UNCHANGED <<env, fname, ras, read, shape, fstate, datasets, grp, dset, geoinfo, ext>>

(* A call that writes to the container raises. *)
WriteFails ==
    /\ status = "running"
    /\ pc \in DOMAIN Prog
    /\ Ins.op \in {"create_group", "create_dataset", "attr", "insar_attr"}
    /\ Raise("ContainerWrite")
    /\ UNCHANGED <<env, fname, ras, read, shape, container, grp, dset, geoinfo, ext, log>>

(* f.close() *)
Close ==
    /\ Op("close")
    /\ fstate' = "closed"
    /\ log' = Append(log, <<"close">>)
    /\ status' = "done"
    /\ err' = err
    /\ pc' = pc + 1
    /\ UNCHANGED <<env, fname, ras, read, shape, groups, datasets, grp, dset, geoinfo, ext>>

Next ==
    \/ cmdLineParse
    \/ FilenameResolve
    \/ mmapFromISCE
    \/ mmapFails
    \/ RecordShape
    \/ OpenFile
    \/ OpenFileFails
    \/ CreateGroup
    \/ CreateDataset
    \/ BandIndexFails
    \/ SetAttr
    \/ ReleaseRaster
    \/ GetGeoInfo
    \/ ComputeExtent
    \/ SetGridAttr
    \/ WriteFails
    \/ Close

Spec == Init /\ [][Next]_vars

-----------------------------------------------------------------------------
(* Reading the state and the log. *)

Terminated == status \in {"failed", "done"}
Calls(kind) == SelectSeq(log, LAMBDA e : e[1] = kind)
Second(seq) == [i \in 1 .. Len(seq) |-> seq[i][2]]
IsPrefix(a, b) == Len(a) <= Len(b) /\ \A i \in 1 .. Len(a) : a[i] = b[i]
DatasetNames == [i \in 1 .. Len(datasets) |-> datasets[i].name]
DatasetNamed(n) == datasets[CHOOSE i \in DOMAIN datasets : datasets[i].name = n]
DatasetOrder ==
    << "UnwrappedInterferogram", "Coherence", "WrappedInterferogram",
       "Illimunation", "Azimuth" >>
GridAttrsWritten ==
    UNION { DOMAIN groups[i].attrs : i \in DOMAIN groups }

-----------------------------------------------------------------------------
(* C2: mode validation.  Whatever files are on disk, once cmdLineParse has *)
(* run, a run with neither --radar nor --geo has failed with the           *)
(* mode-selection error, a run with --radar (with or without --geo) has    *)
(* failed with the unimplemented-mode error, both before touching any      *)
(* file, and only runs with --geo and without --radar are past it.         *)
C2_ModeValidation ==
    (pc > 1 \/ Terminated) =>
        /\ (~rdrcoord /\ ~geocoord) =>
                (status = "failed" /\ err = "ModeSelection" /\ pc = 1)
        /\ rdrcoord => (status = "failed" /\ err = "Unimplemented" /\ pc = 1)
        /\ (geocoord /\ ~rdrcoord) => pc > 1
        /\ pc = 1 => (log = << >> /\ fstate = "none")

C2_Witness ==
    /\ rdrcoord /\ geocoord
    /\ status = "failed" /\ err = "Unimplemented"
    /\ disk # {}

(* C3: grid extent.  Once the extent is computed, with shape = (w, h):     *)
(* north = originY, west = originX, south = north + (h-1)*spacingY and     *)
(* east = west + (w-1)*spacingX, whatever the signs; shape (101, 51),      *)
(* north 10.0, west 20.0, spacingY -0.1, spacingX 0.1 give south 5.0 and   *)
(* east 30.0 (in tenths: 50 and 300).                                      *)
C3_GridExtent ==
    ext # Unbound =>
        /\ ext.north = geoinfo[1]
        /\ ext.west = geoinfo[2]
        /\ ext.south = ext.north + (shape[2] - 1) * geoinfo[3]
        /\ ext.east = ext.west + (shape[1] - 1) * geoinfo[4]
        /\ (geoinfo = <<100, 200, -1, 1>> /\ shape = <<101, 51>>) =>
                (ext.south = 50 /\ ext.east = 300)

C3_Witness ==
    /\ ext # Unbound
    /\ geoinfo = <<100, 200, -1, 1>> /\ shape = <<101, 51>>
    /\ ext.south = 50 /\ ext.east = 300 /\ ext.south < ext.north

(* C4: azimuth transform.  The Azimuth dataset is 360 - A elementwise, A   *)
(* being band 1 of the raster mapped from los.rdr(.geo): a raw 0 is stored *)
(* as 360 and a raw 360 as 0; Illimunation is band 0 of that raster as is. *)
C4_AzimuthTransform ==
    /\ HasDataset("Azimuth") =>
          LET A == read["ang"].bands[2]
              D == DatasetNamed("Azimuth").data
          IN /\ DOMAIN D = DOMAIN A
             /\ \A i \in DOMAIN A :
                   /\ D[i] = 360 - A[i]
                   /\ A[i] = 0 => D[i] = 360
                   /\ A[i] = 360 => D[i] = 0
    /\ HasDataset("Illimunation") =>
          /\ DatasetNamed("Illimunation").data = read["ang"].bands[1]
          /\ Calls("mmap")[4] \in {<<"mmap", "los.rdr">>, <<"mmap", "los.rdr.geo">>}

C4_Witness ==
    /\ HasDataset("Azimuth")
    /\ read["ang"].bands[2] = <<0, 360>>
    /\ DatasetNamed("Azimuth").data = <<360, 0>>

(* C9: product-type group.  The group under HDFEOS is GRIDS in geo mode    *)
(* and SWATHS otherwise; as only runs with --geo and without --radar get   *)
(* past the argument check, whenever the container exists the run is such  *)
(* a run, the product-type group is GRIDS, and no SWATHS group exists.     *)
C9_ProductTypeGroup ==
    /\ fstate # "none" => (geocoord /\ ~rdrcoord)
    /\ \A i \in DOMAIN groups :
          groups[i].path \in {"/HDFEOS", "/HDFEOS/GRIDS", "/HDFEOS/GRIDS/InSAR",
                              "/HDFEOS/GRIDS/Data Fields"}
    /\ "group" \in DOMAIN grp =>
          grp.group = "/HDFEOS/" \o (IF geocoord THEN "GRIDS" ELSE "SWATHS")
    /\ \A e \in {log[i] : i \in DOMAIN log} : e # <<"create_group", "/HDFEOS/SWATHS">>

C9_Witness ==
    /\ HasGroup("/HDFEOS/GRIDS")
    /\ grp.group = "/HDFEOS/GRIDS"
    /\ geocoord

-----------------------------------------------------------------------------
AllFiles == { ResolveNames(TRUE)[n] : n \in DOMAIN DefaultNames }
NothingElseFails ==
    disk = AllFiles /\ err \notin {"ContainerCreate", "ContainerWrite", "BandIndex"}
Held == { v \in DOMAIN ras : ras[v].k = "raster" }
GroupPaths == [i \in 1 .. Len(groups) |-> groups[i].path]

(* C1, as claimed: in geo mode with the georeferencing metadata absent the *)
(* run (read in the claim's favour: all rasters on disk, no library call   *)
(* failing) always fails with the missing-georeference error, and when     *)
(* that error is raised no dataset has been written yet.                   *)
C1_Original ==
    /\ (geocoord /\ ~rdrcoord /\ ~georeferenced /\ NothingElseFails /\ Terminated) =>
            (status = "failed" /\ err = "MissingGeoreference")
    /\ err = "MissingGeoreference" => Len(datasets) = 0

(* C1, amended: in geo mode with the georeferencing metadata absent the    *)
(* run never succeeds, and fails with the missing-georeference error       *)
(* whenever nothing fails earlier; when that error is raised all five      *)
(* datasets have been written, in the fixed order, no grid attribute has   *)
(* been written and the container is still open.                           *)
C1_MissingGeoreferenceAfterDatasets ==
    /\ ~georeferenced => status # "done"
    /\ (geocoord /\ ~rdrcoord /\ ~georeferenced /\ NothingElseFails /\ Terminated) =>
            (status = "failed" /\ err = "MissingGeoreference")
    /\ err = "MissingGeoreference" =>
          /\ status = "failed" /\ geocoord /\ ~rdrcoord /\ ~georeferenced
          /\ DatasetNames = DatasetOrder
          /\ GridAttrsWritten = {}
          /\ fstate = "open"

C1_Witness ==
    /\ status = "failed" /\ err = "MissingGeoreference"
    /\ ~georeferenced /\ geocoord
    /\ Len(datasets) = 5

(* C5, as claimed: close is called at most once, and every run that has    *)
(* ended with the container created, successfully or not, has called       *)
(* close on it exactly once.                                               *)
C5_CloseExactlyOnce ==
    /\ Len(Calls("close")) <= 1
    /\ (Terminated /\ fstate # "none") =>
            (Len(Calls("close")) = 1 /\ fstate = "closed")

(* C6, as claimed: at most one raster handle is held at any time, each     *)
(* raster is mapped at most once (exactly once in a completed run), the    *)
(* los raster is released only after Illimunation and Azimuth are both     *)
(* written, and no run ends, successfully or not, with a handle held.      *)
C6_RasterExclusivity ==
    /\ Cardinality(Held) <= 1
    /\ \A i, j \in DOMAIN log :
          (i < j /\ log[i][1] = "mmap" /\ log[j][1] = "mmap") => log[i] # log[j]
    /\ status = "done" => Len(Calls("mmap")) = 4
    /\ ras["ang"] = None => (HasDataset("Illimunation") /\ HasDataset("Azimuth"))
    /\ Terminated => Held = {}

(* C7: step ordering.  The groups are created once each, root to leaf      *)
(* (HDFEOS, the product-type group, InSAR, Data Fields), all before any    *)
(* dataset; the datasets are created in the fixed order, each at most      *)
(* once; grid attributes come only after all five datasets; close comes    *)
(* last; the run only moves forward, and once it has failed no raster is   *)
(* mapped and nothing is written any more.                                 *)
Stage(e) ==
    CASE e[1] = "File" -> 0
      [] e[1] = "create_group" -> 1
      [] e[1] = "create_dataset" -> 2
      [] e[1] = "attr" -> IF e[2] = "InSAR" THEN 3 ELSE 2
      [] e[1] = "close" -> 4
      [] OTHER -> -1

C7_Order ==
    /\ LET c == SelectSeq(log, LAMBDA e : Stage(e) >= 0)
       IN \A i \in 1 .. Len(c) - 1 : Stage(c[i]) <= Stage(c[i + 1])
    /\ \E t \in {"GRIDS", "SWATHS"} :
          IsPrefix(Second(Calls("create_group")),
                   << "/HDFEOS", "/HDFEOS/" \o t, "/HDFEOS/" \o t \o "/InSAR",
                      "/HDFEOS/" \o t \o "/Data Fields" >>)
    /\ IsPrefix(Second(Calls("create_dataset")), DatasetOrder)
    /\ Len(Calls("create_dataset")) > 0 => Len(Calls("create_group")) = 4
    /\ (\E i \in DOMAIN log : Stage(log[i]) = 3) => Len(Calls("create_dataset")) = 5
    /\ Len(Calls("File")) <= 1 /\ Len(Calls("close")) <= 1
    /\ Len(Calls("close")) = 1 => log[Len(log)] = <<"close">>
    /\ GroupPaths = Second(Calls("create_group"))
    /\ DatasetNames = Second(Calls("create_dataset"))
    /\ \A i \in DOMAIN datasets : datasets[i].parent = GroupPaths[4]
    /\ status = "done" => (Len(Calls("close")) = 1 /\ Len(datasets) = 5)

C7_Forward ==
    /\ status = "running"
    /\ \/ pc' > pc
       \/ pc' = pc /\ status' = "failed" /\ UNCHANGED <<container, ras, read>>

(* C7: the order above holds in every state, and every step is a forward *)
(* step of a run that has not failed.                                      *)
C7_StepOrdering == []C7_Order /\ [][C7_Forward]_vars

C7_Witness ==
    /\ status = "done"
    /\ Second(Calls("create_dataset")) = DatasetOrder
    /\ log[Len(log)] = <<"close">>

RECURSIVE SumOver(_, _)
SumOver(seq, n) ==
    IF n = 0 THEN 0 ELSE Cardinality(DOMAIN seq[n].attrs) + SumOver(seq, n - 1)
AttrsHeld == SumOver(datasets, Len(datasets)) + SumOver(groups, Len(groups))

(* C8: attributes.  No attribute is set twice on one target (every         *)
(* attribute write adds a name its target did not carry); after a          *)
(* successful run each of the five datasets carries Title, MissingValue,   *)
(* Units and _FillValue, and Description on Illimunation and Azimuth only; *)
(* MissingValue and _FillValue are the complex zero on                     *)
(* WrappedInterferogram and the real zero elsewhere; the InSAR group       *)
(* carries exactly the ten grid attributes, GridSpan being (west, east,    *)
(* north, south), NumberOfLongitudesInGrid the width and                   *)
(* NumberOfLatitudesInGrid the height of shape.                            *)
C8_Attributes ==
    /\ Len(Calls("attr")) = AttrsHeld
    /\ status = "done" =>
          /\ DatasetNames = DatasetOrder
          /\ \A i \in DOMAIN datasets :
                LET d == datasets[i]
                    zero == IF d.name = "WrappedInterferogram"
                            THEN [dtype |-> "complex64", re |-> 0, im |-> 0]
                            ELSE [dtype |-> "float32", re |-> 0, im |-> 0]
                IN /\ DOMAIN d.attrs =
                        {"Title", "MissingValue", "Units", "_FillValue"}
                        \cup (IF d.name \in {"Illimunation", "Azimuth"}
                              THEN {"Description"} ELSE {})
                   /\ d.attrs["MissingValue"] = zero
                   /\ d.attrs["_FillValue"] = zero
          /\ \A i \in DOMAIN groups :
                DOMAIN groups[i].attrs =
                    IF groups[i].path = "/HDFEOS/GRIDS/InSAR"
                    THEN {"GCTPProjectionCode", "GCTPSpheroidCode", "Projection",
                          "GridOrigin", "GridSpacing", "GridSpacingUnit", "GridSpan",
                          "GridSpanUnit", "NumberOfLongitudesInGrid",
                          "NumberOfLatitudesInGrid"}
                    ELSE {}
          /\ LET a == groups[3].attrs
                 west == geoinfo[2]
                 east == geoinfo[2] + (shape[1] - 1) * geoinfo[4]
                 north == geoinfo[1]
                 south == geoinfo[1] + (shape[2] - 1) * geoinfo[3]
             IN /\ groups[3].path = "/HDFEOS/GRIDS/InSAR"
                /\ a["GridSpan"] = ToString(<<west, east, north, south>>)
                /\ a["NumberOfLongitudesInGrid"] = [dtype |-> "int32", data |-> <<shape[1]>>]
                /\ a["NumberOfLatitudesInGrid"] = [dtype |-> "int32", data |-> <<shape[2]>>]

C8_Witness ==
    /\ status = "done" /\ geocoord
    /\ shape[1] # shape[2]
    /\ DatasetNamed("WrappedInterferogram").attrs["_FillValue"].dtype = "complex64"
    /\ Len(Calls("attr")) = 32

====
